---- MODULE Spec2Model ----
(***************************************************************************)
(* A model of the diabetes predictor (src/diabetes.py, src/diabetes_gui.py) *)
(*                                                                         *)
(*   read_csv -> analyze -> derive_weights -> predict / predict_with_context*)
(*                                                                         *)
(* Python floats are IEEE-754 binary64 (53-bit significand, round to        *)
(* nearest, ties to even).  TLC's integers have 32 bits, so the model keeps *)
(* the same arithmetic with a significand of MantissaBits bits: a finite    *)
(* float is <<"fin", m, e>> with value m * 2^e, normalised so that          *)
(* 2^(MantissaBits-1) <= |m| < 2^MantissaBits (or m = 0, e = 0).  Every     *)
(* operation computes the exact result and rounds it once, as the hardware  *)
(* does.  The exponent is unbounded (no overflow to inf, no subnormals):    *)
(* the inputs drawn below stay far from binary64's exponent limits.  The    *)
(* sign of zero is not kept (-0.0 and 0.0 compare equal in Python).         *)
(***************************************************************************)
EXTENDS Integers, Sequences, FiniteSets, TLC

VARIABLES
    pc,          \* where the modelled run stands
    fileOk,      \* open(path) and f.read() succeed (FALSE: any exception)
    fileLines,   \* f.read().splitlines(): the lines of the CSV, each a sequence of characters
    data,        \* read_csv's result: the Dataset
    stats,       \* analyze's result
    model,       \* derive_weights' result <<m_list, b, threshold>>, or None
    window,      \* diabetes.window is not None (the GUI import succeeded)
    entries,     \* the text of the form's Entry widgets (diabetes_gui.entries)
    typed,       \* the kinds of text the user has typed so far, field by field
    x_instance,  \* the instance being collected / handed to the Scorer
    scored,      \* every instance the Scorer has been called with, in order
    output,      \* what the front end shows: printed label / output_value, likelihood_value
    warning,     \* the last messagebox shown by on_predict
    result,      \* the last Scorer call's outcome
    prev         \* the Scorer call's outcome before that

vars == <<pc, fileOk, fileLines, data, stats, model, window, entries, typed,
          x_instance, scored, output, warning, result, prev>>

\* ---------------------------------------------------------------- constants

FEATURE_COUNT == 8

\* approximate_exp: the clamp and the number of series terms
EXP_CLAMP == 60
EXP_TERMS == 40

\* Significand width of the modelled floats (binary64 has 53).
MantissaBits == 13

\* Python's None, shaped like a float so that a value can be compared with it
None == <<"none", 0, 0>>

\* ------------------------------------------------------------------ floats

Fin(m, e) == <<"fin", m, e>>
NaN == <<"nan", 0, 0>>
PInf == <<"inf", 1, 0>>
NInf == <<"inf", -1, 0>>
Zero == Fin(0, 0)

IsNaN(a) == a[1] = "nan"
IsInf(a) == a[1] = "inf"
IsFinite(a) == a[1] = "fin"
IsZero(a) == a[1] = "fin" /\ a[2] = 0

Sgn(n) == IF n < 0 THEN -1 ELSE 1
Abs(n) == IF n < 0 THEN -n ELSE n

RECURSIVE BitLen(_)
BitLen(a) == IF a = 0 THEN 0 ELSE 1 + BitLen(a \div 2)

\* The float nearest to sgn * A * 2^E (A >= 0 exact), ties to even.
Round(sgn, A, E) ==
    IF A = 0 THEN Zero
    ELSE LET L == BitLen(A) IN
         IF L <= MantissaBits
         THEN Fin(sgn * A * 2^(MantissaBits - L), E - (MantissaBits - L))
         ELSE LET s == L - MantissaBits
                  q == A \div 2^s
                  r == A % 2^s
                  half == 2^(s - 1)
                  q2 == IF r > half \/ (r = half /\ q % 2 = 1) THEN q + 1 ELSE q
              IN  IF q2 = 2^MantissaBits
                  THEN Fin(sgn * 2^(MantissaBits - 1), E + s + 1)
                  ELSE Fin(sgn * q2, E + s)

\* float(n) for a Python int n
FromInt(n) == Round(Sgn(n), Abs(n), 0)

One == FromInt(1)

FNeg(a) ==
    IF IsNaN(a) THEN NaN
    ELSE IF IsInf(a) THEN <<"inf", -a[2], 0>>
    ELSE Fin(-a[2], a[3])

\* a + b.  When the exponents differ by MantissaBits + 2 or more, the smaller
\* operand is below a quarter of the larger one's last place and rounds away.
FAdd(a, b) ==
    IF IsNaN(a) \/ IsNaN(b) THEN NaN
    ELSE IF IsInf(a) /\ IsInf(b) THEN (IF a[2] = b[2] THEN a ELSE NaN)
    ELSE IF IsInf(a) THEN a
    ELSE IF IsInf(b) THEN b
    ELSE IF a[2] = 0 THEN b
    ELSE IF b[2] = 0 THEN a
    ELSE LET hi == IF a[3] >= b[3] THEN a ELSE b
             lo == IF a[3] >= b[3] THEN b ELSE a
             d  == hi[3] - lo[3]
         IN  IF d >= MantissaBits + 2 THEN hi
             ELSE LET M == hi[2] * 2^d + lo[2]
                  IN  Round(Sgn(M), Abs(M), lo[3])

FSub(a, b) == FAdd(a, FNeg(b))

FMul(a, b) ==
    IF IsNaN(a) \/ IsNaN(b) THEN NaN
    ELSE IF IsInf(a) \/ IsInf(b)
         THEN (IF IsZero(a) \/ IsZero(b) THEN NaN
               ELSE <<"inf", Sgn(a[2]) * Sgn(b[2]), 0>>)
    ELSE Round(Sgn(a[2]) * Sgn(b[2]), Abs(a[2]) * Abs(b[2]), a[3] + b[3])

\* a / b for b # 0 (every division of the program is guarded: s > 0,
\* total_inv > 0, n >= 1).  The quotient is taken to MantissaBits + 1 bits at
\* least and a sticky bit records a non-zero remainder.
FDiv(a, b) ==
    IF IsNaN(a) \/ IsNaN(b) THEN NaN
    ELSE IF IsInf(a) THEN (IF IsInf(b) THEN NaN ELSE <<"inf", a[2] * Sgn(b[2]), 0>>)
    ELSE IF IsInf(b) THEN Zero
    ELSE IF a[2] = 0 THEN Zero
    ELSE LET n == Abs(a[2]) * 2^(MantissaBits + 1)
             q == n \div Abs(b[2])
             r == n % Abs(b[2])
         IN  Round(Sgn(a[2]) * Sgn(b[2]),
                   2 * q + (IF r = 0 THEN 0 ELSE 1),
                   a[3] - b[3] - (MantissaBits + 1) - 1)

\* a < b; any comparison with nan is False
FLt(a, b) ==
    IF IsNaN(a) \/ IsNaN(b) THEN FALSE
    ELSE IF IsInf(a) THEN a[2] < 0 /\ ~(IsInf(b) /\ b[2] < 0)
    ELSE IF IsInf(b) THEN b[2] > 0
    ELSE LET d == FSub(b, a) IN d[2] > 0

FGt(a, b) == FLt(b, a)
FEq(a, b) == ~IsNaN(a) /\ ~IsNaN(b) /\ a = b
FGe(a, b) == FGt(a, b) \/ FEq(a, b)
FLe(a, b) == FLt(a, b) \/ FEq(a, b)

RECURSIVE ISqrt(_, _, _)
\* the largest r in lo..hi with r * r <= n
ISqrt(n, lo, hi) ==
    IF lo = hi THEN lo
    ELSE LET mid == (lo + hi + 1) \div 2
         IN  IF mid * mid <= n THEN ISqrt(n, mid, hi) ELSE ISqrt(n, lo, mid - 1)

\* a ** 0.5 for a >= 0, as the correctly rounded square root
FSqrt(a) ==
    IF IsNaN(a) THEN NaN
    ELSE IF IsInf(a) THEN a
    ELSE IF a[2] = 0 THEN Zero
    ELSE LET odd == a[3] % 2 = 1
             m1  == IF odd THEN 2 * a[2] ELSE a[2]
             e1  == IF odd THEN a[3] - 1 ELSE a[3]
             \* m1 in [2^(P-1), 2^(P+1)); shift by an even count into [2^(2P), 2^(2P+2))
             k   == (MantissaBits + 1) \div 2
             sh  == IF m1 * 2^(2 * k) >= 2^(2 * MantissaBits) THEN 2 * k ELSE 2 * k + 2
             n   == m1 * 2^sh
             r   == ISqrt(n, 0, 2^(MantissaBits + 1))
         IN  Round(1, 2 * r + (IF r * r = n THEN 0 ELSE 1), (e1 - sh) \div 2 - 1)

\* ----------------------------------------------------------------- strings
\* A string is a sequence of one-character strings.

Digits == {"0", "1", "2", "3", "4", "5", "6", "7", "8", "9"}

DigitVal(c) ==
    CASE c = "0" -> 0 [] c = "1" -> 1 [] c = "2" -> 2 [] c = "3" -> 3 [] c = "4" -> 4
      [] c = "5" -> 5 [] c = "6" -> 6 [] c = "7" -> 7 [] c = "8" -> 8 [] c = "9" -> 9

RECURSIVE LStrip(_)
LStrip(s) == IF s # <<>> /\ Head(s) = " " THEN LStrip(Tail(s)) ELSE s

RECURSIVE RStrip(_)
RStrip(s) == IF s # <<>> /\ s[Len(s)] = " " THEN RStrip(SubSeq(s, 1, Len(s) - 1)) ELSE s

\* str.strip()
Strip(s) == RStrip(LStrip(s))

\* the index of the first c in s, or 0
RECURSIVE Find(_, _, _)
Find(s, c, i) ==
    IF i > Len(s) THEN 0 ELSE IF s[i] = c THEN i ELSE Find(s, c, i + 1)

\* str.split(","): the fields between the commas, one more than there are commas
RECURSIVE Split(_)
Split(s) ==
    LET k == Find(s, ",", 1)
    IN  IF k = 0 THEN <<s>>
        ELSE <<SubSeq(s, 1, k - 1)>> \o Split(SubSeq(s, k + 1, Len(s)))

RECURSIVE DigitsValue(_, _)
DigitsValue(s, acc) ==
    IF s = <<>> THEN acc ELSE DigitsValue(Tail(s), 10 * acc + DigitVal(Head(s)))

AllDigits(s) == \A i \in 1..Len(s) : s[i] \in Digits

\* float(text) for text over digits, ".", "+", "-", " " and lower-case letters
\* other than "e" (no exponent part, no underscores, no "infinity"): surrounding
\* blanks are dropped, then an optional sign, then "nan", "inf" or
\* digits [ "." digits ] with one digit at least.  A decimal of up to three
\* digits is an exact integer over an exact power of ten, so one division
\* rounds it correctly.
ParseFloat(text) ==
    LET s    == Strip(text)
        neg  == s # <<>> /\ Head(s) = "-"
        body == IF s # <<>> /\ Head(s) \in {"+", "-"} THEN Tail(s) ELSE s
        dot  == Find(body, ".", 1)
        ip   == IF dot = 0 THEN body ELSE SubSeq(body, 1, dot - 1)
        fp   == IF dot = 0 THEN <<>> ELSE SubSeq(body, dot + 1, Len(body))
        mag  == DigitsValue(ip \o fp, 0)
        num  == FromInt(IF neg THEN -mag ELSE mag)
    IN  IF body = <<"n", "a", "n">> THEN NaN
        ELSE IF body = <<"i", "n", "f">> THEN (IF neg THEN NInf ELSE PInf)
        ELSE IF AllDigits(ip) /\ AllDigits(fp) /\ Len(ip) + Len(fp) >= 1
             THEN (IF fp = <<>> THEN num ELSE FDiv(num, FromInt(10^Len(fp))))
             ELSE None

\* try_float: float(text), or None when float raises
try_float(text) == ParseFloat(text)

\* ---------------------------------------------------------------- read_csv

\* The same loop without its break at the eighth value: every convertible
\* field of the line is collected.
RECURSIVE ParseRowNoBreak(_, _, _)
ParseRowNoBreak(parts, i, row) ==
    IF i > Len(parts) THEN row
    ELSE LET value == try_float(Strip(parts[i]))
         IN  IF value # None
             THEN ParseRowNoBreak(parts, i + 1, Append(row, value))
             ELSE ParseRowNoBreak(parts, i + 1, row)

\* the inner while loop of read_csv: fields parts[i..] appended to row
RECURSIVE ParseRow(_, _, _)
ParseRow(parts, i, row) ==
    IF i > Len(parts) THEN row
    ELSE LET value == try_float(Strip(parts[i]))
         IN  IF value # None
             THEN LET row2 == Append(row, value)
                  IN  IF Len(row2) = FEATURE_COUNT THEN row2
                      ELSE ParseRow(parts, i + 1, row2)
             ELSE ParseRow(parts, i + 1, row)

\* the for loop of read_csv over lines[k..]
RECURSIVE ReadLines(_, _, _)
ReadLines(lines, k, acc) ==
    IF k > Len(lines) THEN acc
    ELSE LET line == Strip(lines[k])
             row  == ParseRow(Split(line), 1, <<>>)
         IN  IF line = <<>> THEN ReadLines(lines, k + 1, acc)
             ELSE IF Len(row) = FEATURE_COUNT
                  THEN ReadLines(lines, k + 1, Append(acc, row))
                  ELSE ReadLines(lines, k + 1, acc)

read_csv(ok, lines) == IF ~ok THEN <<>> ELSE ReadLines(lines, 1, <<>>)

\* ----------------------------------------------------------------- analyze

Features == 1..FEATURE_COUNT

ZeroVector == [j \in Features |-> Zero]

\* sums[j] after rows i..n: the first pass's accumulation for one feature
RECURSIVE ColSum(_, _, _, _)
ColSum(rows, j, i, acc) ==
    IF i > Len(rows) THEN acc ELSE ColSum(rows, j, i + 1, FAdd(acc, rows[i][j]))

\* stats["mins"][j]: replaced only by a strictly smaller x
RECURSIVE ColMin(_, _, _, _)
ColMin(rows, j, i, acc) ==
    IF i > Len(rows) THEN acc
    ELSE ColMin(rows, j, i + 1, IF FLt(rows[i][j], acc) THEN rows[i][j] ELSE acc)

\* stats["maxs"][j]: replaced only by a strictly larger x
RECURSIVE ColMax(_, _, _, _)
ColMax(rows, j, i, acc) ==
    IF i > Len(rows) THEN acc
    ELSE ColMax(rows, j, i + 1, IF FGt(rows[i][j], acc) THEN rows[i][j] ELSE acc)

\* The mean taken over one row too many.
MeanOffByOne(sum, n) == FDiv(sum, FromInt(n + 1))

\* sums[j] / n
Mean(sum, n) == FDiv(sum, FromInt(n))

\* var_sums[j]: the second pass, squared deviations from the mean
RECURSIVE ColVarSum(_, _, _, _, _)
ColVarSum(rows, j, mean, i, acc) ==
    IF i > Len(rows) THEN acc
    ELSE LET d == FSub(rows[i][j], mean)
         IN  ColVarSum(rows, j, mean, i + 1, FAdd(acc, FMul(d, d)))

analyze(rows) ==
    LET n == Len(rows)
        mins == [j \in Features |-> ColMin(rows, j, 1, rows[1][j])]
        maxs == [j \in Features |-> ColMax(rows, j, 1, rows[1][j])]
        means == [j \in Features |-> Mean(ColSum(rows, j, 1, Zero), n)]
    IN  IF n = 0
        THEN [count |-> 0, mins |-> ZeroVector, maxs |-> ZeroVector, means |-> ZeroVector,
              spreads |-> ZeroVector, stds |-> ZeroVector]
        ELSE [count |-> n, mins |-> mins, maxs |-> maxs, means |-> means,
              spreads |-> [j \in Features |-> FSub(maxs[j], mins[j])],
              stds |-> [j \in Features |->
                          FSqrt(FDiv(ColVarSum(rows, j, means[j], 1, Zero), FromInt(n)))]]

\* ---------------------------------------------------------- derive_weights

\* the literal 0.5
Threshold == FDiv(FromInt(5), FromInt(10))

\* inv[j]: 1.0 / s for a positive spread, else 0.0
InvSpread(s) == IF FGt(s, Zero) THEN FDiv(One, s) ELSE Zero

\* The total taken from the second feature on.
RECURSIVE TotalInvFromSecond(_, _, _)
TotalInvFromSecond(inv, j, acc) ==
    IF j > FEATURE_COUNT THEN acc
    ELSE TotalInvFromSecond(inv, j + 1, IF j = 1 THEN acc ELSE FAdd(acc, inv[j]))

\* total_inv after features j..8
RECURSIVE TotalInv(_, _, _)
TotalInv(inv, j, acc) ==
    IF j > FEATURE_COUNT THEN acc ELSE TotalInv(inv, j + 1, FAdd(acc, inv[j]))

\* m_list: inv[j] / total_inv when total_inv > 0, else all 0.0
Normalize(inv, total_inv) ==
    IF FGt(total_inv, Zero)
    THEN [j \in Features |-> FDiv(inv[j], total_inv)]
    ELSE ZeroVector

\* start + m_list[0] * x[0] + ... + m_list[7] * x[7], added in that order
RECURSIVE Accumulate(_, _, _, _)
Accumulate(m_list, x, j, acc) ==
    IF j > FEATURE_COUNT THEN acc
    ELSE Accumulate(m_list, x, j + 1, FAdd(acc, FMul(m_list[j], x[j])))

\* b = threshold - avg_score
Bias(threshold, avg_score) == FSub(threshold, avg_score)

derive_weights(st) ==
    LET inv == [j \in Features |-> InvSpread(st.spreads[j])]
        m_list == Normalize(inv, TotalInv(inv, 1, Zero))
        avg_score == Accumulate(m_list, st.means, 1, Zero)
    IN  <<m_list, Bias(Threshold, avg_score), Threshold>>

\* ------------------------------------------------------------------ Scorer

\* approximate_exp's loop: terms n..40 of the series
RECURSIVE ExpSeries(_, _, _, _)
ExpSeries(value, n, term, total) ==
    IF n > EXP_TERMS THEN total
    ELSE LET t == FDiv(FMul(term, value), FromInt(n))
             sum == FAdd(total, t)
         IN  \* a nan total stays nan to the end
             IF IsNaN(sum) THEN NaN ELSE ExpSeries(value, n + 1, t, sum)

approximate_exp(value) ==
    LET v == IF FGt(value, FromInt(EXP_CLAMP)) THEN FromInt(EXP_CLAMP)
             ELSE IF FLt(value, FromInt(-EXP_CLAMP)) THEN FromInt(-EXP_CLAMP)
             ELSE value
    IN  ExpSeries(v, 1, One, One)

sigs(value) == FDiv(One, FAdd(One, approximate_exp(FNeg(value))))

\* 1 if score >= threshold else 0
Label(score, threshold) == IF FGe(score, threshold) THEN 1 ELSE 0

NoLikelihood == <<"none", 0, 0>>

\* x_instance[j] for j past the end raises IndexError; entries past the eighth
\* are never read.
predict(m_list, b, threshold, x) ==
    IF Len(x) < FEATURE_COUNT
    THEN [raised |-> "IndexError", score |-> None, label |-> -1, likelihood |-> NoLikelihood]
    ELSE LET score == Accumulate(m_list, x, 1, b)
         IN  [raised |-> "no", score |-> score, label |-> Label(score, threshold),
              likelihood |-> NoLikelihood]

predict_with_context(m_list, b, threshold, x) ==
    IF Len(x) < FEATURE_COUNT
    THEN [raised |-> "IndexError", score |-> None, label |-> -1, likelihood |-> NoLikelihood]
    ELSE LET score == Accumulate(m_list, x, 1, b)
         IN  [raised |-> "no", score |-> score, label |-> Label(score, threshold),
              likelihood |-> FMul(sigs(FSub(score, threshold)), FromInt(100))]

\* build_runtime_model: None (the empty tuple here) for an empty dataset
NoModel == <<>>

\* The model built whatever the number of rows.
build_runtime_model_unchecked(ok, lines) == derive_weights(analyze(read_csv(ok, lines)))

build_runtime_model(ok, lines) ==
    LET rows == read_csv(ok, lines)
    IN  IF Len(rows) = 0 THEN NoModel ELSE derive_weights(analyze(rows))

\* ------------------------------------------------ the Row Parser on its own
\* SpecParse: read_csv applied to files drawn from a bounded set.

\* Most fields a drawn line may have (one more than a row needs).
MaxFields == 9

FieldKinds == {"num", "txt", "nonfinite"}

\* The text of a field by kind and position.  Numeric fields differ by
\* position, so that a row shows which fields it was taken from.
NumField ==
    << <<"1">>, <<" ", "2", " ">>, <<"0", ".", "3">>, <<"-", "4">>, <<"5", ".">>,
       <<"+", "6">>, <<".", "7">>, <<"0", "8">>, <<"9", ".", "5">>, <<"1", "0">>,
       <<"1", "1">> >>
\* text that float() refuses
WordField ==
    << <<"x">>, <<"a", "b", "c">>, <<"-">>, <<".">>, <<"1", " ", "2">>, <<"-", ".">>,
       <<"a", "b", "c">>, <<"1", ".", "2", ".", "3">>, <<"n", "a">>, <<"+", "-", "1">>, <<"x">> >>
\* empty or blank text
BlankField(p) == IF p % 2 = 0 THEN <<>> ELSE <<" ">>
\* a CSV field that is not a number: empty in the second and third place
TxtField(p) == IF p \in {2, 3} THEN BlankField(p) ELSE WordField[p]
NonFiniteField ==
    << <<"n", "a", "n">>, <<"i", "n", "f">>, <<"-", "i", "n", "f">>, <<" ", "n", "a", "n">>,
       <<"+", "n", "a", "n">>, <<"i", "n", "f", " ">>, <<"n", "a", "n">>, <<"i", "n", "f">>,
       <<"n", "a", "n">>, <<"-", "i", "n", "f">>, <<"n", "a", "n">> >>

FieldText(kind, p) ==
    CASE kind = "num" -> NumField[p]
      [] kind = "txt" -> TxtField(p)
      [] kind = "nonfinite" -> NonFiniteField[p]

\* ",".join(fields)
RECURSIVE Join(_)
Join(fields) ==
    IF fields = <<>> THEN <<>>
    ELSE IF Len(fields) = 1 THEN fields[1]
    ELSE fields[1] \o <<",">> \o Join(Tail(fields))

LineOf(kinds) == Join([p \in 1..Len(kinds) |-> FieldText(kinds[p], p)])

\* Lines put before or after a drawn line: one with seven numeric fields, one
\* with eight, a blank one.
SevenLine == LineOf([p \in 1..7 |-> "num"])
EightLine == LineOf([p \in 1..8 |-> "num"])
BlankLine == <<" ", " ">>

\* The files a drawn line makes: alone, and between other lines.
FilesOf(l) == { <<l>>, <<SevenLine, BlankLine, l, EightLine>> }

Idle == <<>>

InitParse ==
    /\ pc = "read_csv"
    /\ \/ /\ fileOk = TRUE
          /\ \E n \in 0..MaxFields : \E kinds \in [1..n -> FieldKinds] :
                fileLines \in FilesOf(LineOf(kinds))
       \/ fileOk = FALSE /\ fileLines \in { <<EightLine>>, <<BlankLine, EightLine>> }
    /\ data = <<>>
    /\ stats = Idle /\ model = Idle /\ window = FALSE /\ entries = Idle /\ typed = Idle
    /\ x_instance = Idle /\ scored = Idle /\ output = Idle /\ warning = Idle
    /\ result = Idle /\ prev = Idle

\* data = read_csv(path)
ReadCsv ==
    /\ pc = "read_csv"
    /\ data' = read_csv(fileOk, fileLines)
    /\ pc' = "done"
    /\ UNCHANGED <<fileOk, fileLines, stats, model, window, entries, typed, x_instance,
                   scored, output, warning, result, prev>>

NextParse == ReadCsv

SpecParse == InitParse /\ [][NextParse]_vars

\* ------------------------------------- statistics, weights and Scorer alone
\* SpecScore: analyze, derive_weights and one Scorer call on Datasets drawn
\* from a bounded set.

\* Most rows a drawn Dataset has.
MaxRows == 3

\* 0.0, 1.0 and float("0.1")
PointOne == ParseFloat(<<"0", ".", "1">>)
ValuePool == { Zero, One, PointOne }

\* A row whose first two features are a and b, the other six 0.0
RowOf(a, b) == [j \in Features |-> IF j = 1 THEN a ELSE IF j = 2 THEN b ELSE Zero]

\* The rows read_csv can deliver that a Dataset is drawn from: the pool's values
\* in the first two features, and one row holding float("nan").
RowPool == { RowOf(a, b) : a \in ValuePool, b \in ValuePool } \cup { RowOf(NaN, PointOne) }

\* Instances handed to the Scorer: the Dataset's own mean vector and one other.
EightVector == RowOf(One, One)

InstancePool(st) == { st.means, EightVector }

\* No Scorer call yet
NoCall == [raised |-> "no call", score |-> None, label |-> -1, likelihood |-> NoLikelihood]

InitScore ==
    /\ pc = "analyze"
    /\ \E n \in 0..MaxRows : data \in [1..n -> RowPool]
    /\ fileOk = TRUE /\ fileLines = Idle
    /\ stats = Idle /\ model = Idle /\ window = FALSE /\ entries = Idle /\ typed = Idle
    /\ x_instance = Idle /\ scored = Idle /\ output = Idle /\ warning = Idle
    /\ result = NoCall /\ prev = NoCall

\* stats = analyze(data)
Analyze ==
    /\ pc = "analyze"
    /\ stats' = analyze(data)
    /\ pc' = "derive"
    /\ UNCHANGED <<fileOk, fileLines, data, model, window, entries, typed, x_instance,
                   scored, output, warning, result, prev>>

\* m_list, b, threshold = derive_weights(stats)
DeriveWeights ==
    /\ pc = "derive"
    /\ model' = derive_weights(stats)
    /\ pc' = "score"
    /\ UNCHANGED <<fileOk, fileLines, data, stats, window, entries, typed, x_instance,
                   scored, output, warning, result, prev>>

\* predict(m_list, b, threshold, x) for an x of the pool X
Predict(X) ==
    /\ pc = "score"
    /\ \E x \in X :
          /\ x_instance' = x
          /\ result' = predict(model[1], model[2], model[3], x)
    /\ prev' = result
    /\ UNCHANGED <<pc, fileOk, fileLines, data, stats, model, window, entries, typed,
                   scored, output, warning>>

\* predict_with_context(m_list, b, threshold, x) for an x of the pool X
PredictWithContext(X) ==
    /\ pc = "score"
    /\ \E x \in X :
          /\ x_instance' = x
          /\ result' = predict_with_context(model[1], model[2], model[3], x)
    /\ prev' = result
    /\ UNCHANGED <<pc, fileOk, fileLines, data, stats, model, window, entries, typed,
                   scored, output, warning>>

NextScore == Analyze \/ DeriveWeights \/ Predict(InstancePool(stats))

SpecScore == InitScore /\ [][NextScore]_vars

\* ---------------------------------------------------------- the Scorer alone
\* SpecScorer: predict and predict_with_context called again and again on a
\* Model built from one of three Datasets.

\* weight 1.0 on the first feature and bias 0.0: the score is x[0]
UnitData == << RowOf(Zero, Zero), RowOf(One, Zero) >>
\* the two rows [0,100,0,...] and [10,200,0,...]
TwoRowData == << RowOf(Zero, FromInt(100)), RowOf(FromInt(10), FromInt(200)) >>
\* one row: every spread is zero
OneRowData == << RowOf(One, One) >>

ScorerData == { UnitData, TwoRowData, OneRowData }

SevenVector == [j \in 1..(FEATURE_COUNT - 1) |-> One]
NineVector == [j \in 1..(FEATURE_COUNT + 1) |-> IF j <= 2 THEN One ELSE Zero]

\* Instances whose first feature runs from far below to far above the
\* threshold (the others 0.0), and two vectors that are not of eight entries.
ScorerPool ==
    { RowOf(FromInt(n), Zero) : n \in {-60, -1, 1, 2, 21, 61} }
    \cup { RowOf(Threshold, Zero), SevenVector, NineVector }

InitScorer ==
    /\ pc = "score"
    /\ data \in ScorerData
    /\ stats = analyze(data)
    /\ model = derive_weights(stats)
    /\ fileOk = TRUE /\ fileLines = Idle
    /\ window = FALSE /\ entries = Idle /\ typed = Idle
    /\ x_instance = Idle /\ scored = Idle /\ output = Idle /\ warning = Idle
    /\ result = NoCall /\ prev = NoCall

NextScorer == Predict(ScorerPool) \/ PredictWithContext(ScorerPool)

SpecScorer == InitScorer /\ [][NextScorer]_vars

\* ------------------------------------------------------- main and the form
\* Spec: main() from start to end, with either front end.

FEATURE_LABELS ==
    <<"Pregnancy", "Glucose", "BloodPressure", "SkinThickness", "Insulin", "BMI",
      "DiabetesPedigreeFunction", "Age">>

\* What a user gives a field or a prompt: a number, "nan" or "inf", some other
\* text, or nothing but blanks.
FrontKinds == {"num", "nonfinite", "txt", "empty"}

FrontText(kind, p) ==
    CASE kind = "num" -> NumField[p]
      [] kind = "nonfinite" -> NonFiniteField[p]
      [] kind = "txt" -> WordField[p]
      [] kind = "empty" -> BlankField(p)

\* Most fields of the form that the user fills with something else than a number.
MaxOdd == 2

OddCount(kinds) == Cardinality({ i \in 1..Len(kinds) : kinds[i] # "num" })

\* eight valid fields but the first, which is text: a second, different row
ShiftedLine == LineOf([p \in 1..9 |-> IF p = 1 THEN "txt" ELSE "num"])

\* <<open and read succeed, the lines>>
MainFiles ==
    { <<FALSE, <<EightLine>> >>,
      <<TRUE, <<>> >>,
      <<TRUE, <<BlankLine, SevenLine>> >>,
      <<TRUE, <<EightLine>> >>,
      <<TRUE, <<EightLine, EightLine>> >>,
      <<TRUE, <<EightLine, ShiftedLine>> >> }

NoMessage == <<"", "">>

\* nothing on screen / the form as built: StringVar(value="-")
NothingShown == [output_value |-> "", likelihood_value |-> <<"", 0>>, printed |-> ""]
FormShown == [output_value |-> "-", likelihood_value |-> <<"-", 0>>, printed |-> ""]

\* on_predict found a bad field and returned before the Scorer
Rejected == [raised |-> "rejected", score |-> None, label |-> -1, likelihood |-> NoLikelihood]

\* str(y)
Str(y) == IF y = 1 THEN "1" ELSE IF y = 0 THEN "0" ELSE "?"

\* "{0:.2f}%".format(a): the hundredths of a, ties to even
Format2(a) ==
    IF IsNaN(a) THEN <<"nan%", 0>>
    ELSE IF IsInf(a) THEN <<"inf%", a[2]>>
    ELSE LET n  == Abs(a[2]) * 100
             sh == -a[3]
             q  == n \div 2^sh
             r  == n % 2^sh
         IN  IF sh <= 0 THEN <<"%", Sgn(a[2]) * n * 2^(-sh)>>
             ELSE IF sh > 30 THEN <<"%", 0>>
             ELSE <<"%", Sgn(a[2]) *
                        (IF 2 * r > 2^sh \/ (2 * r = 2^sh /\ q % 2 = 1) THEN q + 1 ELSE q)>>

\* The loop passing over the entries that are empty or not numeric.
RECURSIVE CollectValuesSkipBad(_, _, _)
CollectValuesSkipBad(texts, i, values) ==
    IF i > Len(texts) THEN [ok |-> TRUE, values |-> values, message |-> NoMessage]
    ELSE LET raw == Strip(texts[i])
         IN  IF raw = <<>> \/ ParseFloat(raw) = None
             THEN CollectValuesSkipBad(texts, i + 1, values)
             ELSE CollectValuesSkipBad(texts, i + 1, Append(values, ParseFloat(raw)))

\* on_predict's loop over the entries from the i-th on: the values collected,
\* or the messagebox for the first entry that is empty or that float() refuses
RECURSIVE CollectValues(_, _, _)
CollectValues(texts, i, values) ==
    IF i > Len(texts) THEN [ok |-> TRUE, values |-> values, message |-> NoMessage]
    ELSE LET raw == Strip(texts[i])
         IN  IF raw = <<>>
             THEN [ok |-> FALSE, values |-> values,
                   message |-> <<FEATURE_LABELS[i], " is required.">>]
             ELSE IF ParseFloat(raw) = None
             THEN [ok |-> FALSE, values |-> values,
                   message |-> <<FEATURE_LABELS[i], " must be numeric.">>]
             ELSE CollectValues(texts, i + 1, Append(values, ParseFloat(raw)))

Init ==
    /\ pc = "main"
    /\ \E f \in MainFiles : fileOk = f[1] /\ fileLines = f[2]
    /\ window \in BOOLEAN
    /\ data = <<>> /\ stats = Idle /\ model = NoModel
    /\ entries = Idle /\ typed = <<>> /\ x_instance = <<>>
    /\ scored = {} /\ output = NothingShown /\ warning = NoMessage
    /\ result = NoCall /\ prev = NoCall

\* main() up to its first wait: the model is built; without one main returns,
\* with the GUI the form is built and mainloop entered, else the first prompt.
Main ==
    /\ pc = "main"
    /\ data' = read_csv(fileOk, fileLines)
    /\ stats' = IF Len(data') = 0 THEN Idle ELSE analyze(data')
    /\ model' = build_runtime_model(fileOk, fileLines)
    /\ IF model' = NoModel
       THEN pc' = "done" /\ UNCHANGED <<entries, output>>
       ELSE IF window
       THEN /\ pc' = "gui"
            /\ entries' = [i \in 1..Len(FEATURE_LABELS) |-> <<>>]
            /\ output' = FormShown
       ELSE pc' = "terminal" /\ UNCHANGED <<entries, output>>
    /\ UNCHANGED <<fileOk, fileLines, window, typed, x_instance, scored, warning,
                   result, prev>>

\* input(...) returns: the value is appended, or main returns at a text that
\* is no number; after the eighth value predict is called and its label printed.
TerminalInput ==
    /\ pc = "terminal"
    /\ \E kind \in FrontKinds :
          LET raw_value == FrontText(kind, Len(x_instance) + 1)
              value == try_float(Strip(raw_value))
              x == Append(x_instance, value)
              y == predict(model[1], model[2], model[3], x)
          IN  /\ typed' = Append(typed, kind)
              /\ IF value = None
                 THEN pc' = "done" /\ UNCHANGED <<x_instance, scored, output, result>>
                 ELSE IF Len(x) < FEATURE_COUNT
                 THEN pc' = "terminal" /\ x_instance' = x
                      /\ UNCHANGED <<scored, output, result>>
                 ELSE /\ pc' = "done"
                      /\ x_instance' = x
                      /\ scored' = scored \cup {x}
                      /\ result' = y
                      /\ output' = [output EXCEPT !.printed = Str(y.label)]
    /\ UNCHANGED <<fileOk, fileLines, data, stats, model, window, entries, warning, prev>>

\* input(...) raises (end of input): main returns
TerminalEOF ==
    /\ pc = "terminal"
    /\ pc' = "done"
    /\ UNCHANGED <<fileOk, fileLines, data, stats, model, window, entries, typed,
                   x_instance, scored, output, warning, result, prev>>

\* The user types into the next field of the form (fields are filled from the
\* top, at most MaxOdd of them with something else than a number).
TypeEntry ==
    /\ pc = "gui"
    /\ Len(typed) < Len(entries)
    /\ \E kind \in FrontKinds :
          /\ kind = "num" \/ OddCount(typed) < MaxOdd
          /\ typed' = Append(typed, kind)
          /\ entries' = [entries EXCEPT ![Len(typed) + 1] = FrontText(kind, Len(typed) + 1)]
    /\ warning' = NoMessage
    /\ result' = NoCall
    /\ UNCHANGED <<pc, fileOk, fileLines, data, stats, model, window, x_instance,
                   scored, output, prev>>

\* The Predict button: on_predict
OnPredict ==
    /\ pc = "gui"
    /\ LET c == CollectValues(entries, 1, <<>>)
           r == predict_with_context(model[1], model[2], model[3], c.values)
       IN  IF ~c.ok
           THEN /\ warning' = c.message
                /\ result' = Rejected
                /\ UNCHANGED <<scored, output>>
           ELSE /\ scored' = scored \cup {c.values}
                /\ result' = r
                /\ IF r.raised # "no"
                   THEN UNCHANGED <<output, warning>>
                   ELSE IF r.label # 0 /\ r.label # 1
                   THEN warning' = <<"Prediction Error", "Predictor returned an invalid output.">>
                        /\ UNCHANGED output
                   ELSE /\ output' = [output EXCEPT !.output_value = Str(r.label),
                                                    !.likelihood_value = Format2(r.likelihood)]
                        /\ warning' = NoMessage
    /\ UNCHANGED <<pc, fileOk, fileLines, data, stats, model, window, entries, typed,
                   x_instance, prev>>

\* The window is closed: mainloop, window() and main return
CloseWindow ==
    /\ pc = "gui"
    /\ pc' = "done"
    /\ UNCHANGED <<fileOk, fileLines, data, stats, model, window, entries, typed,
                   x_instance, scored, output, warning, result, prev>>

Next == Main \/ TerminalInput \/ TerminalEOF \/ TypeEntry \/ OnPredict \/ CloseWindow

Spec == Init /\ [][Next]_vars

\* ================================================================ properties

\* ------------------------------------------------------------ Row Parser
Convertible(field) == try_float(Strip(field)) # None

\* The row a line stands for: the values of its first eight convertible
\* fields, if it has that many.
ExpectedRow(line) ==
    LET conv == SelectSeq(Split(line), Convertible)
    IN  IF Len(conv) >= FEATURE_COUNT
        THEN << [j \in 1..FEATURE_COUNT |-> try_float(Strip(conv[j]))] >>
        ELSE <<>>

RECURSIVE ExpectedRows(_, _)
ExpectedRows(lines, k) ==
    IF k > Len(lines) THEN <<>> ELSE ExpectedRow(lines[k]) \o ExpectedRows(lines, k + 1)

\* C1: after read_csv on a readable file the Dataset is, line by line and in
\* order, the first eight convertible fields of every line that has eight or
\* more of them; a line with fewer contributes nothing.
C1_RowsAreFirstEightConvertible ==
    (pc = "done" /\ fileOk) => data = ExpectedRows(fileLines, 1)

\* C1 happens: a nine-field line whose first field is skipped gave a row, the
\* seven-field line before it gave none.
C1_Witness ==
    /\ pc = "done" /\ fileOk
    /\ Len(fileLines) = 4 /\ fileLines[1] = SevenLine
    /\ Len(Split(fileLines[3])) = 9
    /\ ~Convertible(Split(fileLines[3])[1])
    /\ Len(data) = 2
    /\ data[1][1] = try_float(NumField[2])
    /\ data[1] # data[2]

\* C4 as stated: every row of the Dataset has eight values, all finite.
C4_AllRowsFinite ==
    pc = "done" =>
        \A i \in 1..Len(data) :
            /\ Len(data[i]) = FEATURE_COUNT
            /\ \A j \in 1..Len(data[i]) : IsFinite(data[i][j])
\* ---------------------------------------------------------------- Scorer
Called == result.raised # "no call"

\* C3 as stated: an instance that has not exactly eight entries is rejected
\* with an error and gets no label.
C3_WrongLengthRejected ==
    (Called /\ Len(x_instance) # FEATURE_COUNT) =>
        (result.raised = "IndexError" /\ result.label = -1)

HasLikelihood(r) == r.raised = "no" /\ r.likelihood # NoLikelihood

LikelihoodBounded(r) ==
    FLt(Zero, r.likelihood) /\ FLt(r.likelihood, FromInt(100))

FiftyAtThreshold(r) ==
    FEq(r.score, model[3]) => FEq(r.likelihood, FromInt(50))

\* C8 as stated: over two successive calls of predict_with_context on the same
\* Model the likelihood does not fall when the score does not fall; every
\* likelihood lies in (0, 100) and is 50.0 when the score is the threshold.
C8_LikelihoodMonotone ==
    /\ HasLikelihood(result) => (LikelihoodBounded(result) /\ FiftyAtThreshold(result))
    /\ (HasLikelihood(prev) /\ HasLikelihood(result) /\ FLe(prev.score, result.score))
           => FLe(prev.likelihood, result.likelihood)
\* ------------------------------------------------- statistics and weights
FAbs(a) == IF FLt(a, Zero) THEN FNeg(a) ELSE a
FMax(a, b) == IF FLt(a, b) THEN b ELSE a

\* The machine epsilon 2^(1 - MantissaBits) (sys.float_info.epsilon)
Epsilon == Fin(2^(MantissaBits - 1), 2 - 2 * MantissaBits)

ColFinite(j) == \A i \in 1..Len(data) : IsFinite(data[i][j])
DataFinite == \A j \in Features : ColFinite(j)

Analyzed == pc # "analyze" /\ Len(data) >= 1

\* C5 as stated: on a Dataset of finite values, mins <= means <= maxs and
\* spreads = maxs - mins >= 0 for every feature.
C5_MeansBetweenMinAndMax ==
    (Analyzed /\ DataFinite) =>
        \A j \in Features :
            /\ FLe(stats.mins[j], stats.means[j])
            /\ FLe(stats.means[j], stats.maxs[j])
            /\ FEq(stats.spreads[j], FSub(stats.maxs[j], stats.mins[j]))
            /\ FGe(stats.spreads[j], Zero)

\* count * epsilon * max(|min|, |max|)
MeanTolerance(j) ==
    FMul(FromInt(stats.count),
         FMul(Epsilon, FMax(FAbs(stats.mins[j]), FAbs(stats.maxs[j]))))

\* C5 amended: for every feature whose values are all finite, mins <= maxs,
\* spreads = maxs - mins >= 0, and means lies between mins and maxs up to the
\* rounding of the sum: no further out than count * epsilon * max(|min|, |max|).
C5_MeansWithinRounding ==
    Analyzed =>
        \A j \in Features :
            ColFinite(j) =>
                /\ stats.count = Len(data)
                /\ FLe(stats.mins[j], stats.maxs[j])
                /\ FEq(stats.spreads[j], FSub(stats.maxs[j], stats.mins[j]))
                /\ FGe(stats.spreads[j], Zero)
                /\ FLe(FSub(stats.mins[j], stats.means[j]), MeanTolerance(j))
                /\ FLe(FSub(stats.means[j], stats.maxs[j]), MeanTolerance(j))

\* C5 amended happens: a column of finite values whose mean came out above
\* its maximum, in a Dataset that also has a column with a nan.
C5_Witness ==
    /\ Analyzed
    /\ ColFinite(2) /\ ~ColFinite(1)
    /\ FGt(stats.means[2], stats.maxs[2])
    /\ FGt(stats.maxs[2], Zero)
Derived == pc = "score"

AnyPositiveSpread == \E j \in Features : FGt(stats.spreads[j], Zero)

\* The exponent the weights are brought to for an exact sum: the least
\* exponent of a non-zero weight, and no more than that of epsilon.
SumExponent(m_list) ==
    LET es == { m_list[j][3] : j \in { k \in Features : m_list[k][2] # 0 } }
                 \cup { 1 - MantissaBits }
    IN  CHOOSE e \in es : \A f \in es : e <= f

\* (m_list[j] + ... + m_list[8]) / 2^E without rounding
RECURSIVE ExactSum(_, _, _)
ExactSum(m_list, j, E) ==
    IF j > FEATURE_COUNT THEN 0
    ELSE (IF m_list[j][2] = 0 THEN 0 ELSE m_list[j][2] * 2^(m_list[j][3] - E))
         + ExactSum(m_list, j + 1, E)

\* The distance of the weights' exact sum from 1, over 2^E
SumError(m_list) ==
    LET E == SumExponent(m_list)
    IN  Abs(ExactSum(m_list, 1, E) - 2^(-E))

\* FEATURE_COUNT * epsilon, over 2^E
SumTolerance(m_list) == FEATURE_COUNT * 2^(1 - MantissaBits - SumExponent(m_list))

WeightsFinite(m_list) == \A j \in Features : IsFinite(m_list[j])

Half == FDiv(One, FromInt(2))

\* C6 as stated: on a Dataset of finite values, with a positive spread the
\* weights are non-negative and their sum is exactly 1.0; without one they
\* are all 0.0 and the bias is the threshold; the threshold is 0.5.
C6_WeightsSumToOne ==
    (Derived /\ DataFinite) =>
        /\ FEq(model[3], Half)
        /\ IF AnyPositiveSpread
           THEN /\ \A j \in Features : FGe(model[1][j], Zero)
                /\ WeightsFinite(model[1]) /\ SumError(model[1]) = 0
           ELSE /\ \A j \in Features : model[1][j] = Zero
                /\ FEq(model[2], model[3])

\* C6 amended: as C6, but the sum of the weights is 1.0 up to rounding, no
\* further off than FEATURE_COUNT * epsilon; a feature without positive
\* spread has weight 0.0.
C6_WeightsSumToOneWithinRounding ==
    (Derived /\ DataFinite) =>
        /\ FEq(model[3], Half)
        /\ IF AnyPositiveSpread
           THEN /\ \A j \in Features :
                      /\ FGe(model[1][j], Zero)
                      /\ ~FGt(stats.spreads[j], Zero) => model[1][j] = Zero
                /\ WeightsFinite(model[1])
                /\ SumError(model[1]) <= SumTolerance(model[1])
           ELSE /\ \A j \in Features : model[1][j] = Zero
                /\ FEq(model[2], model[3])

\* C6 amended happens: two features with positive spread and weights whose
\* exact sum is not 1.
C6_Witness ==
    /\ Derived /\ DataFinite
    /\ FGt(stats.spreads[1], Zero) /\ FGt(stats.spreads[2], Zero)
    /\ FGt(model[1][1], model[1][2])
    /\ model[1][3] = Zero
    /\ SumError(model[1]) > 0

\* C7 as stated: on a non-empty Dataset of finite values, the Scorer gives
\* the Dataset's own mean vector a score equal to the threshold, and label 1.
C7_MeanVectorScoresThreshold ==
    (Derived /\ Called /\ Len(data) >= 1 /\ DataFinite /\ x_instance = stats.means) =>
        (FEq(result.score, model[3]) /\ result.label = 1)
\* ------------------------------------------------------ main and the form
\* The file gives no row: it cannot be read, or no line of it has eight
\* convertible fields.
EmptyDataset == ~fileOk \/ ExpectedRows(fileLines, 1) = <<>>

\* C2: when the Dataset is empty no Model is built and main returns at once:
\* no form, no prompt, no call of the Scorer, nothing shown.
C2_EmptyDatasetStops ==
    (pc # "main" /\ EmptyDataset) =>
        /\ data = <<>> /\ model = NoModel
        /\ pc = "done"
        /\ entries = Idle /\ typed = <<>> /\ x_instance = <<>>
        /\ scored = {} /\ result = NoCall
        /\ output = NothingShown /\ warning = NoMessage

\* C2 happens: main has returned on a readable file of two lines that gave
\* no row.
C2_Witness ==
    /\ pc = "done" /\ fileOk /\ Len(fileLines) = 2
    /\ data = <<>> /\ model = NoModel

DegenerateModel ==
    /\ model # NoModel
    /\ \A j \in Features : ~FGt(stats.spreads[j], Zero)

\* C9 as stated: under a Model built from a Dataset without positive spread,
\* every instance the front ends hand to the Scorer gets label 1.
C9_DegenerateAlwaysOne ==
    (DegenerateModel /\ result.raised = "no") => result.label = 1

\* The fields of the form that are empty or that float() refuses
BadEntries == { i \in 1..Len(entries) : ~Convertible(entries[i]) }
FirstBad == CHOOSE i \in BadEntries : \A k \in BadEntries : i <= k

\* The message for the first bad field
ExpectedWarning ==
    <<FEATURE_LABELS[FirstBad],
      IF Strip(entries[FirstBad]) = <<>> THEN " is required." ELSE " must be numeric.">>

EightValues(x) == Len(x) = FEATURE_COUNT /\ \A j \in 1..Len(x) : x[j] # None

\* The text given at the last prompt is no number
LastPromptBad ==
    /\ Len(typed) >= 1
    /\ ~Convertible(FrontText(typed[Len(typed)], Len(typed)))

\* C10: the Scorer is only ever handed eight converted values.  In the form,
\* while a field is empty or not numeric a press of Predict is rejected with
\* the message of the first such field, nothing is scored and the outputs
\* stay as they were; a call of the Scorer means all eight fields converted.
\* In the terminal, a text that is no number ends main at that prompt with
\* nothing scored or printed, and the Scorer is called after the eighth value
\* only.
C10_ScorerOnlyAfterEightValues ==
    /\ \A x \in scored : EightValues(x)
    /\ (window /\ pc \in {"gui", "done"} /\ model # NoModel) =>
          /\ BadEntries # {} =>
                /\ result \in {NoCall, Rejected}
                /\ scored = {} /\ output = FormShown
          /\ result = Rejected <=> (BadEntries # {} /\ warning = ExpectedWarning)
          /\ result.raised \in {"no call", "rejected", "no"}
          /\ result.raised = "no" =>
                /\ scored = { [i \in 1..Len(entries) |-> try_float(Strip(entries[i]))] }
                /\ output.output_value = Str(result.label)
    /\ (~window /\ model # NoModel) =>
          /\ LastPromptBad =>
                /\ pc = "done" /\ Len(x_instance) = Len(typed) - 1
                /\ scored = {} /\ result = NoCall /\ output = NothingShown
          /\ Len(x_instance) < FEATURE_COUNT =>
                (scored = {} /\ result = NoCall /\ output = NothingShown)
          /\ scored # {} =>
                /\ scored = {x_instance} /\ Len(typed) = FEATURE_COUNT
                /\ result.raised = "no" /\ output.printed = Str(result.label)

\* C10 happens: Predict was pressed on a form whose fifth field holds text
\* and whose seventh is blank, and the fifth was reported.
C10_Witness ==
    /\ window /\ pc = "gui"
    /\ Len(typed) = FEATURE_COUNT
    /\ BadEntries = {5, 7}
    /\ typed[5] = "txt" /\ typed[7] = "empty"
    /\ result = Rejected
    /\ warning = <<"Insulin", " must be numeric.">>

====
